---------------------------- MODULE Spec2Model ----------------------------
(***************************************************************************)
(* Model of save_model.py: the offline training-and-persistence script.    *)
(* The script is one module-level sequence of statements; every statement  *)
(* is one action, pc is the statement about to run.                        *)
(*                                                                         *)
(* Column names of penguins-chinese.csv are written in English here:       *)
(*   species = 企鹅的种类      island = 企鹅栖息的岛屿                     *)
(*   bill_length = 喙的长度    bill_depth = 喙的深度                       *)
(*   flipper_length = 翅膀的长度  body_mass = 身体质量                     *)
(*   sex = 性别                year = a column the script never selects    *)
(***************************************************************************)
EXTENDS Integers, Sequences, FiniteSets, TLC

(* ------------------------------ bounds -------------------------------- *)

\* longest input table (rows of the csv file) explored
MaxRows == 3

(* --------------------------- input domain ----------------------------- *)

\* a missing categorical cell and a missing numeric cell of the csv file
NA == "NA"
NaN == -1

Rec(sp, isl, sx, m, yr) ==
    [species |-> sp, island |-> isl, bill_length |-> 40 + m, bill_depth |-> 18,
     flipper_length |-> 190, body_mass |-> m, sex |-> sx, year |-> yr]

\* the records a csv file row is drawn from: complete ones (three species,
\* listed so that first appearance and sorted order can differ) and ones with
\* a missing cell in the target, in a predictor and in the column the script
\* never selects
CsvRecords ==
    { Rec("Gentoo", "Dream", "male", 2, 2008),
      Rec("Adelie", "Biscoe", "female", 1, 2007),
      Rec("Chinstrap", "Dream", "female", 2, 2009),
      Rec("Adelie", "Torgersen", "male", 1, 2009),
      Rec(NA, "Biscoe", "male", 1, 2007),
      Rec("Gentoo", "Torgersen", NA, NaN, 2008),
      Rec("Chinstrap", "Dream", "male", 1, NaN) }

RECURSIVE SeqsUpTo(_, _)
SeqsUpTo(S, n) ==
    IF n = 0 THEN { <<>> }
    ELSE LET shorter == SeqsUpTo(S, n - 1)
         IN  shorter \cup { Append(s, x) : s \in { t \in shorter : Len(t) = n - 1 }, x \in S }

CsvFiles == SeqsUpTo(CsvRecords, MaxRows)

(* ------------------------------ schema -------------------------------- *)

AllCols == << "species", "island", "bill_length", "bill_depth",
              "flipper_length", "body_mass", "sex", "year" >>

\* src/save_model.py:15, the predictor columns in the order they are selected
FeatureCols == << "island", "bill_length", "bill_depth",
                  "flipper_length", "body_mass", "sex" >>

TargetCol == "species"

\* columns read_csv parses as text (dtype object); the others are numbers
TextCols == { "species", "island", "sex" }

Range(s) == { s[i] : i \in 1..Len(s) }

\* lexicographic order of the text values, as Python sorts them
SortedText == << "Adelie", "Biscoe", "Chinstrap", "Dream", "Gentoo",
                 "Torgersen", "female", "male" >>

(* --------------------------- pandas helpers --------------------------- *)

\* pd.read_csv: a DataFrame with a RangeIndex starting at 0
ReadCsv(file) == [ i \in 1..Len(file) |-> [idx |-> i - 1, rec |-> file[i]] ]

RowComplete(row) ==
    \A j \in 1..Len(AllCols) :
        LET v == row.rec[AllCols[j]]
        IN  IF AllCols[j] \in TextCols THEN v # NA ELSE v # NaN

\* DropNa looking only at the columns the script goes on to use
DropNaSelected(df) ==
    SelectSeq(df, LAMBDA row :
        /\ row.rec[TargetCol] # NA
        /\ \A j \in 1..Len(FeatureCols) :
              IF FeatureCols[j] \in TextCols THEN row.rec[FeatureCols[j]] # NA
              ELSE row.rec[FeatureCols[j]] # NaN)

\* DataFrame.dropna(): keep the rows with no missing cell in any column
DropNa(df) == SelectSeq(df, RowComplete)

\* df[col]: a Series that keeps the index
SelectColumn(df, col) == [ i \in 1..Len(df) |-> [idx |-> df[i].idx, val |-> df[i].rec[col]] ]

\* df[[cols]]: a DataFrame of the selected columns, index kept
SelectColumns(df, cols) ==
    [ columns |-> cols,
      rows    |-> [ i \in 1..Len(df) |->
                      [idx |-> df[i].idx,
                       vals |-> [ j \in 1..Len(cols) |-> df[i].rec[cols[j]] ]] ] ]

\* dtype of a column of the frame: read_csv gives object to every column of a
\* file with no data rows
IsObjectCol(col, file) == col \in TextCols \/ Len(file) = 0

ColIndex(cols, c) == CHOOSE j \in 1..Len(cols) : cols[j] = c

\* the distinct values of a column, sorted (the categories of the column)
Categories(frame, c) ==
    LET j    == ColIndex(frame.columns, c)
        seen == { frame.rows[i].vals[j] : i \in 1..Len(frame.rows) }
    IN  SelectSeq(SortedText, LAMBDA v : v \in seen)

RECURSIVE Concat(_)
Concat(ss) == IF ss = <<>> THEN <<>> ELSE Head(ss) \o Concat(Tail(ss))

\* GetDummies as pd.get_dummies(drop_first=True): the first category of every
\* object column gets no indicator
GetDummiesDropFirst(frame, file) ==
    LET cols    == frame.columns
        numCols == SelectSeq(cols, LAMBDA c : ~IsObjectCol(c, file))
        objCols == SelectSeq(cols, LAMBDA c : IsObjectCol(c, file))
        cats(c) == IF Categories(frame, c) = <<>> THEN <<>> ELSE Tail(Categories(frame, c))
        dummyNames(c) == [ k \in 1..Len(cats(c)) |-> c \o "_" \o cats(c)[k] ]
        dummyVals(c, row) == [ k \in 1..Len(cats(c)) |->
                                 IF row.vals[ColIndex(cols, c)] = cats(c)[k] THEN 1 ELSE 0 ]
    IN  [ columns |-> numCols \o Concat([ k \in 1..Len(objCols) |-> dummyNames(objCols[k]) ]),
          rows    |-> [ i \in 1..Len(frame.rows) |->
                          [idx  |-> frame.rows[i].idx,
                           vals |-> [ k \in 1..Len(numCols) |->
                                        frame.rows[i].vals[ColIndex(cols, numCols[k])] ]
                                    \o Concat([ k \in 1..Len(objCols) |->
                                                 dummyVals(objCols[k], frame.rows[i]) ])] ] ]

\* pd.get_dummies(frame): the non-object columns first, in their order, then
\* for every object column in order one 0/1 column per category, named
\* column_value
GetDummies(frame, file) ==
    LET cols    == frame.columns
        numCols == SelectSeq(cols, LAMBDA c : ~IsObjectCol(c, file))
        objCols == SelectSeq(cols, LAMBDA c : IsObjectCol(c, file))
        dummyNames(c) == [ k \in 1..Len(Categories(frame, c)) |->
                             c \o "_" \o Categories(frame, c)[k] ]
        dummyVals(c, row) == [ k \in 1..Len(Categories(frame, c)) |->
                                 IF row.vals[ColIndex(cols, c)] = Categories(frame, c)[k]
                                 THEN 1 ELSE 0 ]
    IN  [ columns |-> numCols \o Concat([ k \in 1..Len(objCols) |-> dummyNames(objCols[k]) ]),
          rows    |-> [ i \in 1..Len(frame.rows) |->
                          [idx  |-> frame.rows[i].idx,
                           vals |-> [ k \in 1..Len(numCols) |->
                                        frame.rows[i].vals[ColIndex(cols, numCols[k])] ]
                                    \o Concat([ k \in 1..Len(objCols) |->
                                                 dummyVals(objCols[k], frame.rows[i]) ])] ] ]

\* pd.factorize: the distinct non-missing values in order of first appearance
RECURSIVE Uniques(_)
Uniques(vals) ==
    IF vals = <<>> THEN <<>>
    ELSE LET u == Uniques(SubSeq(vals, 1, Len(vals) - 1))
             v == vals[Len(vals)]
         IN  IF v = NA \/ v \in Range(u) THEN u ELSE Append(u, v)

Position(u, v) == CHOOSE k \in 1..Len(u) : u[k] = v

\* Factorize with codes counted from 1
FactorizeOneBased(series) ==
    LET vals == [ i \in 1..Len(series) |-> series[i].val ]
        u    == Uniques(vals)
    IN  [ codes   |-> [ i \in 1..Len(vals) |->
                          IF vals[i] = NA THEN -1 ELSE Position(u, vals[i]) ],
          uniques |-> u ]

\* Factorize returning the uniques sorted while the codes still count first
\* appearances
FactorizeSortedUniques(series) ==
    LET vals == [ i \in 1..Len(series) |-> series[i].val ]
        u    == Uniques(vals)
    IN  [ codes   |-> [ i \in 1..Len(vals) |->
                          IF vals[i] = NA THEN -1 ELSE Position(u, vals[i]) - 1 ],
          uniques |-> SelectSeq(SortedText, LAMBDA v : v \in Range(u)) ]

\* Factorize as pd.factorize(sort=True): sorted uniques, codes into them
FactorizeSort(series) ==
    LET vals == [ i \in 1..Len(series) |-> series[i].val ]
        u    == SelectSeq(SortedText, LAMBDA v : v \in Range(Uniques(vals)))
    IN  [ codes   |-> [ i \in 1..Len(vals) |->
                          IF vals[i] = NA THEN -1 ELSE Position(u, vals[i]) - 1 ],
          uniques |-> u ]

\* pd.factorize(series): (codes, uniques); codes are 0-based positions in
\* uniques, -1 for a missing value; the codes are a plain array (no index)
Factorize(series) ==
    LET vals == [ i \in 1..Len(series) |-> series[i].val ]
        u    == Uniques(vals)
    IN  [ codes   |-> [ i \in 1..Len(vals) |->
                          IF vals[i] = NA THEN -1 ELSE Position(u, vals[i]) - 1 ],
          uniques |-> u ]

(* --------------------------- sklearn helpers -------------------------- *)

\* src/save_model.py:26, train_size=0.8, in tenths
TrainSizeTenths == 8

\* the split fractions (in tenths) the Train/Evaluate step is exercised with
\* when the fraction is an input: -0.5, 0.0, 0.5, 0.8, 1.0, 1.5
SplitFractions == { -5, 0, 5, 8, 10, 15 }

\* train_test_split's validation of its arguments, in the order sklearn
\* performs it: consistent lengths, the float train_size in (0, 1), then
\* n_train = floor(train_size * n), n_test = n - n_train, n_train > 0
ValidateShuffleSplit(nX, ny, ts) ==
    IF nX # ny THEN [err |-> "ValueError", n_train |-> 0, n_test |-> 0]
    ELSE IF ts <= 0 \/ ts >= 10 THEN [err |-> "ValueError", n_train |-> 0, n_test |-> 0]
    ELSE LET n_train == (ts * nX) \div 10
             n_test  == nX - n_train
         IN  IF n_train = 0
             THEN [err |-> "ValueError", n_train |-> 0, n_test |-> n_test]
             ELSE [err |-> "None", n_train |-> n_train, n_test |-> n_test]

\* rng.permutation(n)
ShufflePermutations(n) == { f \in [1..n -> 1..n] : \A a, b \in 1..n : f[a] = f[b] => a = b }

\* ShuffleSplit: the first n_test entries of the permutation are the test
\* positions, the next n_train the train positions
TestPositions(perm, n_train, n_test)  == [ k \in 1..n_test  |-> perm[k] ]
\* TrainPositions read from the start of the permutation, as the test ones are
TrainPositionsOverlap(perm, n_train, n_test) == [ k \in 1..n_train |-> perm[k] ]

TrainPositions(perm, n_train, n_test) == [ k \in 1..n_train |-> perm[n_test + k] ]

\* _safe_indexing of a DataFrame: the rows at the positions, index kept
TakeRows(frame, pos) ==
    [ columns |-> frame.columns, rows |-> [ k \in 1..Len(pos) |-> frame.rows[pos[k]] ] ]

\* _safe_indexing of an array
TakeCodes(codes, pos) == [ k \in 1..Len(pos) |-> codes[pos[k]] ]

EmptyFrame == [ columns |-> <<>>, rows |-> <<>> ]

(* ------------------------------- state -------------------------------- *)

ModelFile   == "rfc_model.pkl"
UniquesFile == "output_uniques.pkl"
OutputFiles == { ModelFile, UniquesFile }

VARIABLES
    pc,             \* the statement about to run, or "done" / "failed"
    csv,            \* the rows of penguins-chinese.csv
    train_size,     \* the train_size argument, in tenths
    penguin_df,     \* the loaded table
    output,         \* the target Series
    features,       \* the predictor DataFrame
    output_codes,   \* codes returned by pd.factorize
    output_uniques, \* uniques returned by pd.factorize
    x_train, x_test, y_train, y_test,
    rfc,            \* the classifier object
    y_pred,
    score,          \* accuracy as [correct, total]
    fs,             \* the two output files in the working directory
    handles,        \* names of the output files with an open handle
    opened,         \* the successful open() calls, in order
    pending,        \* exception in flight inside a with block
    error,          \* the exception that ended the run
    printed,        \* the success line was printed
    stages          \* the statements started so far, in order

\* app.py: the dashboard script; one run of the script per user interaction
VARIABLES
    app_pc,         \* the part of app.py about to run, "end" after the footer, "off" when not running
    model_files,    \* the three files under models/: "ok", "missing" or "corrupt"
    enc_gender,     \* classes_ of the encoder pickled in le_gender.pkl
    enc_major,      \* classes_ of the encoder pickled in le_major.pkl
    data_file,      \* student_data_adjusted_rounded.csv: "ok", "empty_table", "missing" or "corrupt"
    model_cache,    \* st.cache_resource entry of load_model
    data_cache,     \* st.cache_data entry of load_data
    model, le_gender, le_major, df,   \* module globals of app.py
    radio_state,    \* the sidebar radio's value in the session
    page,           \* the value st.sidebar.radio returned in this run
    gender, major,  \* the form's select boxes as submitted
    submitted,      \* the submit button was clicked for this run
    form_shown,     \* the previous run rendered the form
    outputs,        \* elements rendered in this run, in order
    calls,          \* encoder and model calls made in this run, in order
    branches,       \* page branches executed in this run, in order
    runs            \* runs of the script so far in the session

appEnv  == << model_files, enc_gender, enc_major, data_file >>
appVars == << app_pc, appEnv, model_cache, data_cache, model, le_gender, le_major, df,
              radio_state, page, gender, major, submitted, form_shown,
              outputs, calls, branches, runs >>

dataVars  == << csv, train_size, penguin_df, output, features, output_codes, output_uniques >>
splitVars == << x_train, x_test, y_train, y_test >>
fitVars   == << rfc, y_pred, score >>
ioVars    == << fs, handles, opened, pending, printed >>
vars      == << pc, dataVars, splitVars, fitVars, ioVars, error, stages, appVars >>

Absent == [state |-> "absent", data |-> <<>>]

NoneObj == [none |-> TRUE, classes |-> {}]

EmptyDataFrame == [empty |-> TRUE, majors |-> {}]

\* the state of a session before the script has run
AppFresh ==
    /\ model_cache = [set |-> FALSE, exc |-> "None", model |-> NoneObj,
                       le_gender |-> NoneObj, le_major |-> NoneObj]
    /\ data_cache = [set |-> FALSE, exc |-> "None", df |-> EmptyDataFrame]
    /\ model = NoneObj /\ le_gender = NoneObj /\ le_major = NoneObj
    /\ df = EmptyDataFrame
    /\ radio_state = "home" /\ page = "home"
    /\ gender = "male" /\ major = "bigdata"
    /\ submitted = FALSE /\ form_shown = FALSE
    /\ outputs = <<>> /\ calls = <<>> /\ branches = <<>>

\* app.py is not running
AppOff ==
    /\ app_pc = "off"
    /\ model_files = [ f \in { "model", "le_gender", "le_major" } |-> "missing" ]
    /\ enc_gender = {} /\ enc_major = {}
    /\ data_file = "missing"
    /\ runs = 0
    /\ AppFresh

InitWith(fractions) ==
    /\ pc = "read_csv"
    /\ csv \in CsvFiles
    /\ train_size \in fractions
    /\ penguin_df = <<>>
    /\ output = <<>>
    /\ features = EmptyFrame
    /\ output_codes = <<>>
    /\ output_uniques = <<>>
    /\ x_train = EmptyFrame /\ x_test = EmptyFrame
    /\ y_train = <<>> /\ y_test = <<>>
    /\ rfc = [fitted |-> FALSE, classes |-> {}, fit_idx |-> {}, columns |-> <<>>]
    /\ y_pred = <<>>
    /\ score = [correct |-> 0, total |-> 0]
    /\ fs = [ f \in OutputFiles |-> Absent ]
    /\ handles = {}
    /\ opened = <<>>
    /\ pending = "None"
    /\ error = "None"
    /\ printed = FALSE
    /\ stages = <<>>
    /\ AppOff

\* the script: train_size is the literal 0.8
Init == InitWith({ TrainSizeTenths })

(* ------------------------------ actions ------------------------------- *)

\* Fail as a retry of the failing statement
FailRetry(e) == pc' = pc /\ error' = e

\* an uncaught exception ends the script
Fail(e) == pc' = "failed" /\ error' = e

Start(stmt, next) == pc = stmt /\ stages' = Append(stages, stmt) /\ (pc' = next /\ error' = error)

\* line 9: penguin_df = pd.read_csv(...); the file may be unreadable
LoadCsv ==
    /\ pc = "read_csv"
    /\ stages' = Append(stages, "read_csv")
    /\ \/ /\ penguin_df' = ReadCsv(csv)
          /\ pc' = "dropna" /\ error' = error
       \/ /\ Fail("FileNotFoundError")
          /\ UNCHANGED penguin_df
    /\ UNCHANGED appVars
    /\ UNCHANGED << csv, train_size, output, features, output_codes, output_uniques,
                    splitVars, fitVars, ioVars >>

\* line 11: penguin_df.dropna(inplace=True)
DropMissing ==
    /\ Start("dropna", "output")
    /\ penguin_df' = DropNa(penguin_df)
    /\ UNCHANGED appVars
    /\ UNCHANGED << csv, train_size, output, features, output_codes, output_uniques,
                    splitVars, fitVars, ioVars >>

\* line 13: output = penguin_df[target]
SelectOutput ==
    /\ Start("output", "features")
    /\ output' = SelectColumn(penguin_df, TargetCol)
    /\ UNCHANGED appVars
    /\ UNCHANGED << csv, train_size, penguin_df, features, output_codes, output_uniques,
                    splitVars, fitVars, ioVars >>

\* line 15: features = penguin_df[[...]]
SelectFeatures ==
    /\ Start("features", "get_dummies")
    /\ features' = SelectColumns(penguin_df, FeatureCols)
    /\ UNCHANGED appVars
    /\ UNCHANGED << csv, train_size, penguin_df, output, output_codes, output_uniques,
                    splitVars, fitVars, ioVars >>

\* line 17: features = pd.get_dummies(features)
EncodeFeatures ==
    /\ Start("get_dummies", "factorize")
    /\ features' = GetDummies(features, csv)
    /\ UNCHANGED appVars
    /\ UNCHANGED << csv, train_size, penguin_df, output, output_codes, output_uniques,
                    splitVars, fitVars, ioVars >>

\* line 19: output_codes, output_uniques = pd.factorize(output)
EncodeTarget ==
    /\ Start("factorize", "train_test_split")
    /\ output_codes' = Factorize(output).codes
    /\ output_uniques' = Factorize(output).uniques
    /\ UNCHANGED appVars
    /\ UNCHANGED << csv, train_size, penguin_df, output, features,
                    splitVars, fitVars, ioVars >>

\* SplitResult with the labels cut in file order while the rows are shuffled
SplitResultMisaligned(X, y, perm, n_train, n_test) ==
    [ x_train |-> TakeRows(X, TrainPositions(perm, n_train, n_test)),
      x_test  |-> TakeRows(X, TestPositions(perm, n_train, n_test)),
      y_train |-> SubSeq(y, 1, n_train),
      y_test  |-> SubSeq(y, n_train + 1, n_train + n_test) ]

\* the arrays train_test_split returns for one permutation
SplitResult(X, y, perm, n_train, n_test) ==
    [ x_train |-> TakeRows(X, TrainPositions(perm, n_train, n_test)),
      x_test  |-> TakeRows(X, TestPositions(perm, n_train, n_test)),
      y_train |-> TakeCodes(y, TrainPositions(perm, n_train, n_test)),
      y_test  |-> TakeCodes(y, TestPositions(perm, n_train, n_test)) ]

\* line 26: x_train, x_test, y_train, y_test = train_test_split(...)
Split ==
    /\ pc = "train_test_split"
    /\ stages' = Append(stages, "train_test_split")
    /\ LET v == ValidateShuffleSplit(Len(features.rows), Len(output_codes), train_size)
       IN  IF v.err # "None"
           THEN /\ Fail(v.err)
                /\ UNCHANGED splitVars
           ELSE /\ \E perm \in ShufflePermutations(Len(features.rows)) :
                      LET r == SplitResult(features, output_codes, perm, v.n_train, v.n_test)
                      IN  /\ x_train' = r.x_train /\ x_test' = r.x_test
                          /\ y_train' = r.y_train /\ y_test' = r.y_test
                /\ pc' = "RandomForestClassifier" /\ error' = error
    /\ UNCHANGED appVars
    /\ UNCHANGED << dataVars, fitVars, ioVars >>

\* line 29: rfc = RandomForestClassifier()
Construct ==
    /\ Start("RandomForestClassifier", "fit")
    /\ rfc' = [fitted |-> FALSE, classes |-> {}, fit_idx |-> {}, columns |-> <<>>]
    /\ UNCHANGED appVars
    /\ UNCHANGED << dataVars, splitVars, y_pred, score, ioVars >>

\* Fit called with the whole table: rfc.fit(features, output_codes)
FitOnAll ==
    /\ Start("fit", "predict")
    /\ rfc' = [fitted  |-> TRUE,
               classes |-> Range(output_codes),
               fit_idx |-> { features.rows[i].idx : i \in 1..Len(features.rows) },
               columns |-> features.columns]
    /\ UNCHANGED appVars
    /\ UNCHANGED << dataVars, splitVars, y_pred, score, ioVars >>

\* line 31: rfc.fit(x_train, y_train); the fitted forest remembers the
\* classes it saw and the feature layout it was fitted on
Fit ==
    /\ Start("fit", "predict")
    /\ rfc' = [fitted  |-> TRUE,
               classes |-> Range(y_train),
               fit_idx |-> { x_train.rows[i].idx : i \in 1..Len(x_train.rows) },
               columns |-> x_train.columns]
    /\ UNCHANGED appVars
    /\ UNCHANGED << dataVars, splitVars, y_pred, score, ioVars >>

\* line 33: y_pred = rfc.predict(x_test); the forest is opaque, it answers
\* with any class it was fitted on
Predict ==
    /\ Start("predict", "accuracy_score")
    /\ y_pred' \in [ 1..Len(x_test.rows) -> rfc.classes ]
    /\ UNCHANGED appVars
    /\ UNCHANGED << dataVars, splitVars, rfc, score, ioVars >>

\* Score counting the predictions that differ from the true code
ScoreMismatches ==
    /\ Start("accuracy_score", "write_model")
    /\ score' = [correct |-> Cardinality({ i \in 1..Len(y_test) : y_test[i] # y_pred[i] }),
                 total   |-> Len(y_test)]
    /\ UNCHANGED appVars
    /\ UNCHANGED << dataVars, splitVars, rfc, y_pred, ioVars >>

\* line 38: score = accuracy_score(y_test, y_pred)
Score ==
    /\ Start("accuracy_score", "write_model")
    /\ score' = [correct |-> Cardinality({ i \in 1..Len(y_test) : y_test[i] = y_pred[i] }),
                 total   |-> Len(y_test)]
    /\ UNCHANGED appVars
    /\ UNCHANGED << dataVars, splitVars, rfc, y_pred, ioVars >>

(* ---------------------------- persistence ----------------------------- *)

Whole(obj) == [state |-> "whole", data |-> obj]

\* what a failed pickle.dump leaves in the file: nothing yet, or a prefix
Damaged == { [state |-> "empty", data |-> <<>>], [state |-> "partial", data |-> <<>>] }

\* open(name, 'wb'): creates or truncates the file and returns a handle, or
\* raises (the directory or the file is not writable) and creates nothing
OpenWb(stmt, name, body) ==
    /\ pc = stmt
    /\ stages' = Append(stages, stmt)
    /\ \/ /\ fs' = [fs EXCEPT ![name] = [state |-> "empty", data |-> <<>>]]
          /\ handles' = handles \cup { name }
          /\ opened' = Append(opened, name)
          /\ pc' = body /\ error' = error
       \/ /\ Fail("PermissionError")
          /\ UNCHANGED << fs, handles, opened >>
    /\ UNCHANGED appVars
    /\ UNCHANGED << dataVars, splitVars, fitVars, pending, printed >>

\* pickle.dump(obj, f) inside the with block: writes the whole byte stream, or
\* raises part way (device full, I/O error) and the exception is in flight
PickleDump(body, name, obj, exit) ==
    /\ pc = body
    /\ \/ /\ fs' = [fs EXCEPT ![name] = Whole(obj)]
          /\ pending' = "None"
       \/ /\ \E d \in Damaged : fs' = [fs EXCEPT ![name] = d]
          /\ pending' = "OSError"
    /\ pc' = exit
    /\ UNCHANGED appVars
    /\ UNCHANGED << dataVars, splitVars, fitVars, handles, opened, printed, error, stages >>

\* WithExit as f.close() written after the dump: skipped when the dump raises
WithExitLeak(exit, name, next) ==
    /\ pc = exit
    /\ IF pending = "None"
       THEN handles' = handles \ { name } /\ pc' = next /\ error' = error
       ELSE handles' = handles /\ Fail(pending)
    /\ pending' = "None"
    /\ UNCHANGED appVars
    /\ UNCHANGED << dataVars, splitVars, fitVars, fs, opened, printed, stages >>

\* leaving the with block: the handle is closed on the normal path and on the
\* exception path; an exception in flight then ends the script
WithExit(exit, name, next) ==
    /\ pc = exit
    /\ handles' = handles \ { name }
    /\ IF pending = "None"
       THEN pc' = next /\ error' = error
       ELSE Fail(pending)
    /\ pending' = "None"
    /\ UNCHANGED appVars
    /\ UNCHANGED << dataVars, splitVars, fitVars, fs, opened, printed, stages >>

\* lines 42-43: with open('rfc_model.pkl', 'wb') as f: pickle.dump(rfc, f)
OpenModel  == OpenWb("write_model", ModelFile, "dump_model")
DumpModel  == PickleDump("dump_model", ModelFile, rfc, "exit_model")
CloseModel == WithExit("exit_model", ModelFile, "write_uniques")

\* lines 46-47: with open('output_uniques.pkl', 'wb') as f: pickle.dump(output_uniques, f)
OpenUniques  == OpenWb("write_uniques", UniquesFile, "dump_uniques")
DumpUniques  == PickleDump("dump_uniques", UniquesFile, output_uniques, "exit_uniques")
CloseUniques == WithExit("exit_uniques", UniquesFile, "print")

\* line 49: print(...)
PrintSuccess ==
    /\ Start("print", "done")
    /\ printed' = TRUE
    /\ UNCHANGED appVars
    /\ UNCHANGED << dataVars, splitVars, fitVars, fs, handles, opened, pending >>

Next ==
    \/ LoadCsv \/ DropMissing \/ SelectOutput \/ SelectFeatures
    \/ EncodeFeatures \/ EncodeTarget \/ Split
    \/ Construct \/ Fit \/ Predict \/ Score
    \/ OpenModel \/ DumpModel \/ CloseModel
    \/ OpenUniques \/ DumpUniques \/ CloseUniques
    \/ PrintSuccess

Spec == Init /\ [][Next]_vars

\* the Train/Evaluate step with the split fraction as an input
InitFractions == InitWith(SplitFractions)

SpecFractions == InitFractions /\ [][Next]_vars

Terminal == pc \in { "done", "failed" }

TypeOK ==
    /\ pc \in { "read_csv", "dropna", "output", "features", "get_dummies", "factorize",
                "train_test_split", "RandomForestClassifier", "fit", "predict",
                "accuracy_score", "write_model", "dump_model", "exit_model",
                "write_uniques", "dump_uniques", "exit_uniques", "print",
                "done", "failed" }
    /\ error \in { "None", "FileNotFoundError", "ValueError", "PermissionError", "OSError" }
    /\ handles \subseteq OutputFiles
    /\ printed \in BOOLEAN

(* ------------------------------- app.py ------------------------------ *)

\* most runs of the script explored in one session
MaxRuns == 3

pipeVars == << pc, dataVars, splitVars, fitVars, ioVars, error, stages >>

\* save_model.py is not running
PipelineOff ==
    /\ pc = "off"
    /\ csv = <<>>
    /\ train_size = TrainSizeTenths
    /\ penguin_df = <<>> /\ output = <<>> /\ features = EmptyFrame
    /\ output_codes = <<>> /\ output_uniques = <<>>
    /\ x_train = EmptyFrame /\ x_test = EmptyFrame /\ y_train = <<>> /\ y_test = <<>>
    /\ rfc = [fitted |-> FALSE, classes |-> {}, fit_idx |-> {}, columns |-> <<>>]
    /\ y_pred = <<>> /\ score = [correct |-> 0, total |-> 0]
    /\ fs = [ f \in OutputFiles |-> Absent ]
    /\ handles = {} /\ opened = <<>> /\ pending = "None"
    /\ error = "None" /\ printed = FALSE /\ stages = <<>>

\* app.py:345, the radio's options (home = 项目首页, analysis = 专业数据分析,
\* prediction = 期末成绩预测); index=0 selects the first
PageMenu == << "home", "analysis", "prediction" >>

\* app.py:784, the gender select box (male = 男, female = 女)
GenderOptions == { "male", "female" }

\* app.py:54, the majors of the simulated data
SimulatedMajors == { "bigdata", "ai", "cs", "se", "sec" }

\* the majors in the data file when it can be read
FileMajors == { "bigdata", "ai" }

\* the classes an encoder pickle may hold: the ones the form offers, or others
GenderEncodings == { { "male", "female" }, { "M", "F" } }
MajorEncodings  == { { "ai", "bigdata" }, { "bigdata" } }

\* sorted order of the labels, as np.unique sorts an encoder's classes_
SortedLabels == << "F", "M", "ai", "bigdata", "cs", "female", "male", "se", "sec" >>

LoadOrder == << "model", "le_gender", "le_major" >>

Loaded(classes) == [none |-> FALSE, classes |-> classes]

\* load_model returning whatever was loaded before the failing joblib.load
LoadModelPartial(files, gClasses, mClasses) ==
    LET bad   == { k \in 1..3 : files[LoadOrder[k]] # "ok" }
        first == IF bad = {} THEN 4 ELSE CHOOSE k \in bad : \A j \in bad : k <= j
    IN  [ set       |-> TRUE,
          exc       |-> IF bad = {} THEN "None"
                        ELSE IF files[LoadOrder[first]] = "missing" THEN "FileNotFoundError"
                        ELSE "Exception",
          model     |-> IF first > 1 THEN Loaded({}) ELSE NoneObj,
          le_gender |-> IF first > 2 THEN Loaded(gClasses) ELSE NoneObj,
          le_major  |-> IF first > 3 THEN Loaded(mClasses) ELSE NoneObj ]

\* app.py:32-44, load_model: three joblib.load calls in one try; the first
\* that raises decides the handler, and both handlers return three Nones
LoadModelResult(files, gClasses, mClasses) ==
    LET bad   == { k \in 1..3 : files[LoadOrder[k]] # "ok" }
        first == IF bad = {} THEN 4 ELSE CHOOSE k \in bad : \A j \in bad : k <= j
    IN  IF bad = {}
        THEN [ set |-> TRUE, exc |-> "None", model |-> Loaded({}),
               le_gender |-> Loaded(gClasses), le_major |-> Loaded(mClasses) ]
        ELSE [ set |-> TRUE,
               exc |-> IF files[LoadOrder[first]] = "missing" THEN "FileNotFoundError"
                       ELSE "Exception",
               model |-> NoneObj, le_gender |-> NoneObj, le_major |-> NoneObj ]

\* app.py:47-69, load_data: the file's table, simulated data when the file is
\* missing, an empty DataFrame on any other exception
LoadDataResult(file) ==
    IF file = "ok" THEN [set |-> TRUE, exc |-> "None", df |-> [empty |-> FALSE, majors |-> FileMajors]]
    ELSE IF file = "empty_table" THEN [set |-> TRUE, exc |-> "None", df |-> EmptyDataFrame]
    ELSE IF file = "missing"
         THEN [set |-> TRUE, exc |-> "FileNotFoundError",
               df |-> [empty |-> FALSE, majors |-> SimulatedMajors]]
    ELSE [set |-> TRUE, exc |-> "Exception", df |-> EmptyDataFrame]

\* the message a cached loader shows for its exception
LoaderMessage(name, exc) ==
    IF exc = "None" THEN <<>>
    ELSE IF exc = "FileNotFoundError" THEN << name \o "_warning" >>
    ELSE << name \o "_error" >>

\* app.py:72, model, le_gender, le_major = load_model() under st.cache_resource
AppLoadModel ==
    /\ app_pc = "load_model"
    /\ LET r == IF model_cache.set THEN model_cache
                ELSE LoadModelResult(model_files, enc_gender, enc_major)
       IN  /\ model_cache' = r
           /\ model' = r.model /\ le_gender' = r.le_gender /\ le_major' = r.le_major
           /\ outputs' = outputs \o LoaderMessage("load_model", r.exc)
    /\ app_pc' = "load_data"
    /\ UNCHANGED << appEnv, data_cache, df, radio_state, page, gender, major,
                    submitted, form_shown, calls, branches, runs >>
    /\ UNCHANGED pipeVars

\* app.py:73, df = load_data() under st.cache_data
AppLoadData ==
    /\ app_pc = "load_data"
    /\ LET r == IF data_cache.set THEN data_cache ELSE LoadDataResult(data_file)
       IN  /\ data_cache' = r
           /\ df' = r.df
           /\ outputs' = outputs \o LoaderMessage("load_data", r.exc)
    /\ app_pc' = "radio"
    /\ UNCHANGED << appEnv, model_cache, model, le_gender, le_major, radio_state, page,
                    gender, major, submitted, form_shown, calls, branches, runs >>
    /\ UNCHANGED pipeVars

\* app.py:343-347, page = st.sidebar.radio(..., index=0)
AppRadio ==
    /\ app_pc = "radio"
    /\ page' = radio_state
    /\ app_pc' = "dispatch"
    /\ UNCHANGED << appEnv, model_cache, data_cache, model, le_gender, le_major, df,
                    radio_state, gender, major, submitted, form_shown,
                    outputs, calls, branches, runs >>
    /\ UNCHANGED pipeVars

\* BranchOf with the first label misspelt in the comparison
BranchOfTypo(p) ==
    IF p = "Home" THEN "home"
    ELSE IF p = "analysis" THEN "analysis"
    ELSE IF p = "prediction" THEN "prediction"
    ELSE "none"

\* app.py:350, 468, 774: the if / elif / elif chain over page, no else
BranchOf(p) ==
    IF p = "home" THEN "home"
    ELSE IF p = "analysis" THEN "analysis"
    ELSE IF p = "prediction" THEN "prediction"
    ELSE "none"

\* app.py:350-465, the home page: static content
HomePage ==
    /\ app_pc = "dispatch" /\ BranchOf(page) = "home"
    /\ branches' = Append(branches, "home")
    /\ outputs' = Append(outputs, "home_content")
    /\ form_shown' = FALSE
    /\ app_pc' = "footer"
    /\ UNCHANGED << appEnv, model_cache, data_cache, model, le_gender, le_major, df,
                    radio_state, page, gender, major, submitted, calls, runs >>
    /\ UNCHANGED pipeVars

\* app.py:468-771, the analysis page: a warning for an empty table, else charts
AnalysisPage ==
    /\ app_pc = "dispatch" /\ BranchOf(page) = "analysis"
    /\ branches' = Append(branches, "analysis")
    /\ outputs' = outputs \o << "analysis_title",
                                IF df.empty THEN "no_data_warning" ELSE "charts" >>
    /\ form_shown' = FALSE
    /\ app_pc' = "footer"
    /\ UNCHANGED << appEnv, model_cache, data_cache, model, le_gender, le_major, df,
                    radio_state, page, gender, major, submitted, calls, runs >>
    /\ UNCHANGED pipeVars

\* app.py:776, the prediction page's guard
PredictionAvailable(m, d) == ~(m.none \/ d.empty)

\* transform giving an unknown label the code -1 instead of raising
TransformLenient(le, v) ==
    [ err  |-> "None",
      code |-> IF v \in le.classes
               THEN Cardinality({ k \in 1..Len(SortedLabels) :
                       SortedLabels[k] \in le.classes /\
                       \E j \in 1..Len(SortedLabels) : SortedLabels[j] = v /\ k < j })
               ELSE -1 ]

\* LabelEncoder.transform([v])[0]: the position of v in the sorted classes_,
\* ValueError for a label that is not among them
Transform(le, v) ==
    IF v \in le.classes
    THEN [ err  |-> "None",
           code |-> Cardinality({ k \in 1..Len(SortedLabels) :
                       SortedLabels[k] \in le.classes /\
                       \E j \in 1..Len(SortedLabels) : SortedLabels[j] = v /\ k < j }) ]
    ELSE [ err |-> "ValueError", code |-> -1 ]

\* what model.predict may do: raise, or return a score below or at the pass mark
PredictOutcomes == { "raise", "59", "60" }

\* app.py:799-825, the body of `if submitted:`; every exception inside the
\* try is caught and shown as an error
SubmitResult(leG, leM, g, m, outcome) ==
    LET gc == Transform(leG, g)
        mc == Transform(leM, m)
    IN  IF gc.err # "None"
        THEN [ calls |-> << "le_gender.transform" >>, outputs |-> << "predict_error" >> ]
        ELSE IF mc.err # "None"
        THEN [ calls   |-> << "le_gender.transform", "le_major.transform" >>,
               outputs |-> << "predict_error" >> ]
        ELSE IF outcome = "raise"
        THEN [ calls   |-> << "le_gender.transform", "le_major.transform", "model.predict" >>,
               outputs |-> << "predict_error" >> ]
        ELSE [ calls   |-> << "le_gender.transform", "le_major.transform", "model.predict" >>,
               outputs |-> << "prediction", IF outcome = "60" THEN "pass" ELSE "fail" >> ]

\* app.py:774-825, the prediction page
PredictionPage ==
    /\ app_pc = "dispatch" /\ BranchOf(page) = "prediction"
    /\ branches' = Append(branches, "prediction")
    /\ IF ~PredictionAvailable(model, df)
       THEN /\ outputs' = outputs \o << "prediction_title", "unavailable_error" >>
            /\ calls' = calls
            /\ form_shown' = FALSE
       ELSE /\ form_shown' = TRUE
            /\ IF ~submitted
               THEN /\ outputs' = outputs \o << "prediction_title", "form" >>
                    /\ calls' = calls
               ELSE \E outcome \in PredictOutcomes :
                       LET r == SubmitResult(le_gender, le_major, gender, major, outcome)
                       IN  /\ outputs' = outputs \o << "prediction_title", "form" >> \o r.outputs
                           /\ calls' = calls \o r.calls
    /\ app_pc' = "footer"
    /\ UNCHANGED << appEnv, model_cache, data_cache, model, le_gender, le_major, df,
                    radio_state, page, gender, major, submitted, runs >>
    /\ UNCHANGED pipeVars

\* app.py:828-833, the footer, after the chain whichever branch ran
Footer ==
    /\ \/ app_pc = "footer"
       \/ app_pc = "dispatch" /\ BranchOf(page) = "none"
    /\ outputs' = Append(outputs, "footer")
    /\ app_pc' = "end"
    /\ UNCHANGED << appEnv, model_cache, data_cache, model, le_gender, le_major, df,
                    radio_state, page, gender, major, submitted, form_shown,
                    calls, branches, runs >>
    /\ UNCHANGED pipeVars

\* the user picks a page in the sidebar, or submits the form the previous run
\* rendered; Streamlit runs the script again from the top, caches kept
Rerun ==
    /\ app_pc = "end"
    /\ runs < MaxRuns
    /\ \/ /\ radio_state' \in Range(PageMenu)
          /\ submitted' = FALSE
          /\ UNCHANGED << gender, major >>
       \/ /\ form_shown
          /\ submitted' = TRUE
          /\ gender' \in GenderOptions
          /\ major' \in df.majors
          /\ UNCHANGED radio_state
    /\ outputs' = <<>> /\ calls' = <<>> /\ branches' = <<>>
    /\ runs' = runs + 1
    /\ app_pc' = "load_model"
    /\ UNCHANGED << appEnv, model_cache, data_cache, model, le_gender, le_major, df,
                    page, form_shown >>
    /\ UNCHANGED pipeVars

\* a new session: nothing cached, the radio on its default
InitApp ==
    /\ PipelineOff
    /\ app_pc = "load_model"
    /\ model_files \in [ { "model", "le_gender", "le_major" } -> { "ok", "missing", "corrupt" } ]
    /\ enc_gender \in GenderEncodings
    /\ enc_major \in MajorEncodings
    /\ data_file \in { "ok", "empty_table", "missing", "corrupt" }
    /\ runs = 1
    /\ AppFresh

NextApp ==
    \/ AppLoadModel \/ AppLoadData \/ AppRadio
    \/ HomePage \/ AnalysisPage \/ PredictionPage
    \/ Footer \/ Rerun

SpecApp == InitApp /\ [][NextApp]_vars


(* ------------------------------ claims -------------------------------- *)

Ran(stmt) == stmt \in Range(stages)

IsPrefix(s, t) == Len(s) <= Len(t) /\ \A i \in 1..Len(s) : s[i] = t[i]

\* C1: in every terminal state either both artifacts are whole and success
\* was printed, or the run failed and neither file exists in any form.
C1_AllOrNothing ==
    Terminal =>
        \/ /\ pc = "done" /\ printed
           /\ \A f \in OutputFiles : fs[f].state = "whole"
        \/ /\ pc = "failed" /\ ~printed
           /\ \A f \in OutputFiles : fs[f].state = "absent"

\* C2: a table with no rows after dropna ends the run with a DataError, and
\* neither the split nor the fit was attempted and no file was opened.
C2_EmptyRaisesDataError ==
    (Terminal /\ Ran("dropna") /\ Len(penguin_df) = 0) =>
        /\ pc = "failed" /\ error = "DataError"
        /\ ~Ran("train_test_split") /\ ~Ran("fit")
        /\ opened = <<>>

EmptyTableStopsAtSplit ==
    (Terminal /\ Ran("dropna") /\ Len(penguin_df) = 0) =>
        /\ pc = "failed" /\ error = "ValueError"
        /\ stages[Len(stages)] = "train_test_split"
        /\ ~Ran("fit") /\ opened = <<>>
        /\ \A f \in OutputFiles : fs[f].state = "absent"

\* what train_test_split does for a fraction outside (0,1): ValueError, and
\* no file is opened
BadFractionStopsAtSplit ==
    (Terminal /\ Ran("train_test_split") /\ (train_size <= 0 \/ train_size >= 10)) =>
        /\ pc = "failed" /\ error = "ValueError"
        /\ stages[Len(stages)] = "train_test_split"
        /\ ~Ran("fit") /\ opened = <<>>
        /\ \A f \in OutputFiles : fs[f].state = "absent"

\* a failure before the persistence block leaves no file at all
FailureBeforeWriteLeavesNothing ==
    (pc = "failed" /\ ~Ran("write_model")) =>
        \A f \in OutputFiles : fs[f].state = "absent"

\* C4: the two output files are opened in order, one handle at a time; a
\* handle is open only inside its with block, the first is closed before the
\* second is opened, and none is open when the run has ended, also when the
\* dump into the file failed.
C4_HandlesScoped ==
    /\ Cardinality(handles) <= 1
    /\ IsPrefix(opened, << ModelFile, UniquesFile >>)
    /\ handles \subseteq Range(opened)
    /\ (ModelFile \in handles <=> pc \in { "dump_model", "exit_model" })
    /\ (UniquesFile \in handles <=> pc \in { "dump_uniques", "exit_uniques" })
    /\ (Len(opened) = 2 => ModelFile \notin handles)
    /\ (Terminal => handles = {})
    /\ (pc = "done" => opened = << ModelFile, UniquesFile >>)

\* the dump into the second file failed and the run has ended
C4_Witness ==
    /\ pc = "failed" /\ error = "OSError"
    /\ opened = << ModelFile, UniquesFile >>
    /\ fs[UniquesFile].state = "partial"
    /\ handles = {}

StageOrder ==
    << "read_csv", "dropna", "output", "features", "get_dummies", "factorize",
       "train_test_split", "RandomForestClassifier", "fit", "predict",
       "accuracy_score", "write_model", "write_uniques", "print" >>

C5_State ==
    /\ IsPrefix(stages, StageOrder)
    /\ (error # "None" <=> pc = "failed")
    /\ (pc = "failed" => ~printed)
    /\ (printed => /\ stages = StageOrder
                   /\ \A f \in OutputFiles : fs[f].state = "whole")
    /\ (pc = "done" => printed)

C5_Step ==
    /\ ~Terminal
    /\ Len(stages') <= Len(stages) + 1
    /\ (error' # "None" => pc' = "failed")
    /\ (stages' # stages => pending = "None")

\* C5: the statements run in the one fixed order, each at most once and none
\* skipped; an exception ends the run and nothing runs after it or after the
\* end; success is printed only after both artifacts are whole.
C5_FixedOrder == []C5_State /\ [][C5_Step]_vars

\* a complete run
C5_Witness ==
    /\ pc = "done" /\ printed /\ stages = StageOrder

SourceRecord(idx) == csv[idx + 1]

Decoded(code) == output_uniques[code + 1]

FrameAligned(frame, codes) ==
    /\ Len(frame.rows) = Len(codes)
    /\ \A i \in 1..Len(frame.rows) :
          LET src == SourceRecord(frame.rows[i].idx)
          IN  /\ codes[i] \in 0..(Len(output_uniques) - 1)
              /\ Decoded(codes[i]) = src.species
              /\ \E j \in 1..Len(frame.columns) :
                    /\ frame.columns[j] = "body_mass"
                    /\ frame.rows[i].vals[j] = src.body_mass
              /\ \E j \in 1..Len(frame.columns) :
                    /\ frame.columns[j] = "island_" \o src.island
                    /\ frame.rows[i].vals[j] = 1

\* C6: once features and codes exist, row i of the feature matrix and code i
\* belong to the same source record, and so do every row of x_train / x_test
\* and the code at the same position of y_train / y_test.
C6_RowsAligned ==
    /\ Ran("factorize") => FrameAligned(features, output_codes)
    /\ Ran("train_test_split") /\ pc # "failed" =>
          /\ Len(x_train.rows) >= 1 /\ Len(x_test.rows) >= 1
          /\ FrameAligned(x_train, y_train)
          /\ FrameAligned(x_test, y_test)

\* a split of a table that lost its first row to dropna (index and position
\* differ), with different labels on the two sides
C6_Witness ==
    /\ pc = "fit"
    /\ Len(csv) > Len(features.rows)
    /\ features.rows[1].idx > 0
    /\ x_train.rows[1].idx > x_test.rows[1].idx
    /\ y_train[1] # y_test[1]

SurvivingTargets == { penguin_df[i].rec.species : i \in 1..Len(penguin_df) }

\* C7: with k distinct target values among the surviving rows the lookup
\* table has k entries, all different, and every code is in [0, k).
C7_LookupSize ==
    Ran("factorize") =>
        LET k == Cardinality(SurvivingTargets)
        IN  /\ Len(output_uniques) = k
            /\ Cardinality(Range(output_uniques)) = k
            /\ \A i \in 1..Len(output_codes) : 0 <= output_codes[i] /\ output_codes[i] < k

\* three surviving rows, two distinct targets
C7_Witness ==
    /\ Ran("factorize")
    /\ Len(output_codes) = 3
    /\ Cardinality(SurvivingTargets) = 2

\* C8: every surviving record's code looks up its own label, the table
\* written to output_uniques.pkl is that table, and a predicted code looks up
\* the label of a record the model was fitted on.
C8_RoundTrip ==
    /\ Ran("factorize") =>
          /\ Len(output_codes) = Len(output)
          /\ \A i \in 1..Len(output) :
                /\ output_codes[i] \in 0..(Len(output_uniques) - 1)
                /\ output_uniques[output_codes[i] + 1] = output[i].val
                /\ output[i].val = SourceRecord(output[i].idx).species
    /\ fs[UniquesFile].state = "whole" =>
          /\ fs[UniquesFile].data = output_uniques
          /\ \A j \in 1..Len(y_pred) :
                \E i \in 1..Len(x_train.rows) :
                    fs[UniquesFile].data[y_pred[j] + 1] = SourceRecord(x_train.rows[i].idx).species

\* the lookup table was written and it is not in sorted order
C8_Witness ==
    /\ pc = "done"
    /\ fs[UniquesFile].state = "whole"
    /\ fs[UniquesFile].data = << "Gentoo", "Adelie" >>
    /\ Len(output_codes) = 3

FirstIndex(v) == CHOOSE i \in 1..Len(output) :
                    output[i].val = v /\ \A j \in 1..(i - 1) : output[j].val # v

\* C9: the lookup table lists the distinct targets of the surviving rows in
\* order of first appearance, and a record's code is the number of distinct
\* targets that first appear before its own.
C9_FirstAppearance ==
    Ran("factorize") =>
        /\ Range(output_uniques) = { output[i].val : i \in 1..Len(output) }
        /\ \A a, b \in 1..Len(output_uniques) :
              a < b => FirstIndex(output_uniques[a]) < FirstIndex(output_uniques[b])
        /\ \A i \in 1..Len(output) :
              output_codes[i] =
                  Cardinality({ v \in Range(output_uniques) :
                                  FirstIndex(v) < FirstIndex(output[i].val) })

\* three targets whose first appearances are not in sorted order
C9_Witness ==
    /\ Ran("factorize")
    /\ output_uniques = << "Gentoo", "Chinstrap", "Adelie" >>
    /\ output_codes = << 0, 1, 2 >>

IdxSet(frame) == { frame.rows[i].idx : i \in 1..Len(frame.rows) }

\* C11: a split that succeeded keeps every surviving row exactly once,
\* len(train) + len(test) = n, and len(train) is within 1 of p * n.
C11_SplitSizes ==
    (Ran("train_test_split") /\ pc # "failed") =>
        LET n  == Len(features.rows)
            tr == Len(x_train.rows)
            te == Len(x_test.rows)
        IN  /\ tr + te = n
            /\ Len(y_train) = tr /\ Len(y_test) = te
            /\ 10 * tr - train_size * n < 10
            /\ train_size * n - 10 * tr < 10
            /\ Cardinality(IdxSet(x_train)) = tr
            /\ Cardinality(IdxSet(x_test)) = te
            /\ IdxSet(x_train) \cup IdxSet(x_test) = IdxSet(features)
            /\ Cardinality(IdxSet(features)) = n

\* the script's fraction on three surviving rows: 2 train, 1 test
C11_Witness ==
    /\ pc = "RandomForestClassifier"
    /\ train_size = TrainSizeTenths
    /\ Len(features.rows) = 3
    /\ Len(x_train.rows) = 2 /\ Len(x_test.rows) = 1

\* C12: the score is (test rows whose predicted code is the code of their
\* own source record) over (test rows), the test subset is never empty, and
\* 0 <= correct <= total.
C12_Accuracy ==
    Ran("accuracy_score") =>
        /\ score.total = Len(x_test.rows)
        /\ score.total >= 1
        /\ 0 <= score.correct /\ score.correct <= score.total
        /\ score.correct =
              Cardinality({ i \in 1..Len(x_test.rows) :
                              Decoded(y_pred[i]) = SourceRecord(x_test.rows[i].idx).species })

\* two test rows, one of them predicted correctly
C12_Witness ==
    /\ Ran("accuracy_score")
    /\ score = [correct |-> 1, total |-> 2]

RecordComplete(r) ==
    /\ r.species # NA /\ r.island # NA /\ r.sex # NA
    /\ r.bill_length # NaN /\ r.bill_depth # NaN
    /\ r.flipper_length # NaN /\ r.body_mass # NaN
    /\ r.year # NaN

CompleteIdx == SelectSeq([ i \in 1..Len(csv) |-> i - 1 ], LAMBDA k : RecordComplete(csv[k + 1]))

\* C13: after dropna the table, and then the target and the feature matrix,
\* hold exactly the records of the file with no missing cell in any column,
\* the unused column included, in file order.
C13_DropMissing ==
    /\ Ran("dropna") => [ i \in 1..Len(penguin_df) |-> penguin_df[i].idx ] = CompleteIdx
    /\ Ran("output") => [ i \in 1..Len(output) |-> output[i].idx ] = CompleteIdx
    /\ Ran("features") =>
          [ i \in 1..Len(features.rows) |-> features.rows[i].idx ] = CompleteIdx

\* the middle row of three misses only its year and is gone
C13_Witness ==
    /\ Ran("features")
    /\ Len(csv) = 3
    /\ csv[2].year = NaN /\ csv[2].species # NA /\ csv[2].sex # NA
    /\ [ i \in 1..Len(features.rows) |-> features.rows[i].idx ] = << 0, 2 >>

\* C15: the forest is fitted on exactly the rows of x_train; train and test
\* rows are disjoint source records, and the rows predicted and scored are
\* rows the forest was not fitted on.
C15_FitOnTrainOnly ==
    /\ (Ran("train_test_split") /\ pc # "failed") => IdxSet(x_train) \cap IdxSet(x_test) = {}
    /\ Ran("fit") =>
          /\ rfc.fitted
          /\ rfc.fit_idx = IdxSet(x_train)
          /\ rfc.fit_idx \cap IdxSet(x_test) = {}
          /\ rfc.classes = { c \in 0..(Len(output_uniques) - 1) :
                               \E i \in 1..Len(x_train.rows) :
                                   Decoded(c) = SourceRecord(x_train.rows[i].idx).species }
    /\ Ran("predict") =>
          /\ Len(y_pred) = Len(x_test.rows)
          /\ \A i \in 1..Len(x_test.rows) : x_test.rows[i].idx \notin rfc.fit_idx

\* fitted on two rows, scored on the third
C15_Witness ==
    /\ Ran("accuracy_score")
    /\ Cardinality(rfc.fit_idx) = 2
    /\ Len(x_test.rows) = 1

IndicatorNames(c) == { c \o "_" \o v : v \in Range(SortedText) }

IndicatorCols(c) ==
    LET names == IndicatorNames(c)
    IN  { j \in 1..Len(features.columns) : features.columns[j] \in names }

\* C18: in the encoded matrix every row has, for island and for sex, exactly
\* one indicator set, the one named after the value of its source record, and
\* the column has as many indicators as distinct values in the surviving rows.
C18_OneHot ==
    Ran("get_dummies") =>
        \A c \in { "island", "sex" } :
            LET ind == IndicatorCols(c)
            IN  /\ Cardinality(ind) =
                      Cardinality({ SourceRecord(features.rows[i].idx)[c] :
                                      i \in 1..Len(features.rows) })
                /\ \A i \in 1..Len(features.rows) :
                      LET row == features.rows[i]
                          own == c \o "_" \o SourceRecord(row.idx)[c]
                      IN  /\ Len(row.vals) = Len(features.columns)
                          /\ \A j \in ind :
                                row.vals[j] = IF features.columns[j] = own THEN 1 ELSE 0
                          /\ Cardinality({ j \in ind : row.vals[j] = 1 }) = 1

\* three surviving rows with three islands and two sexes
C18_Witness ==
    /\ Ran("get_dummies")
    /\ Len(features.rows) = 3
    /\ Cardinality(IndicatorCols("island")) = 3
    /\ Cardinality(IndicatorCols("sex")) = 2

Shown(e) == e \in Range(outputs)

Called(c) == c \in Range(calls)

\* C14: a submission whose gender or major is not among the classes of the
\* loaded encoder is reported as an error; no predicted score and no pass or
\* fail message is shown for it and the model is not asked.
C14_UnknownCategoryReported ==
    ( /\ branches = << "prediction" >>
      /\ submitted /\ ~model.none /\ ~df.empty
      /\ (gender \notin enc_gender \/ major \notin enc_major) ) =>
        /\ Shown("predict_error")
        /\ ~Shown("prediction") /\ ~Shown("pass") /\ ~Shown("fail")
        /\ ~Called("model.predict")

\* the simulated data offers a major the encoder was not fitted on
C14_Witness ==
    /\ app_pc = "end"
    /\ branches = << "prediction" >>
    /\ submitted
    /\ gender \in enc_gender /\ major \notin enc_major
    /\ calls = << "le_gender.transform", "le_major.transform" >>
    /\ Shown("predict_error")

BranchContent(b) ==
    IF b = "home" THEN "home_content"
    ELSE IF b = "analysis" THEN "analysis_title"
    ELSE "prediction_title"

\* C16: in every run exactly one page branch executes, the one of the page
\* selected in the radio (home in the first run), and the footer is rendered
\* once, last, after that branch's content.
C16_PageDispatch ==
    /\ radio_state \in Range(PageMenu)
    /\ app_pc \in { "load_model", "load_data", "radio", "dispatch" } => branches = <<>>
    /\ app_pc \in { "footer", "end" } => branches = << radio_state >>
    /\ (runs = 1 /\ app_pc \in { "footer", "end" }) => branches = << PageMenu[1] >>
    /\ app_pc # "end" => ~Shown("footer")
    /\ app_pc = "end" =>
          /\ outputs[Len(outputs)] = "footer"
          /\ Cardinality({ k \in 1..Len(outputs) : outputs[k] = "footer" }) = 1
          /\ \E k \in 1..(Len(outputs) - 1) : outputs[k] = BranchContent(branches[1])
          /\ \A b \in Range(PageMenu) \ { radio_state } : ~Shown(BranchContent(b))

\* the second run, after the user chose the analysis page
C16_Witness ==
    /\ app_pc = "end"
    /\ runs = 2
    /\ branches = << "analysis" >>
    /\ outputs[Len(outputs)] = "footer"

AllModelFilesOk == \A f \in DOMAIN model_files : model_files[f] = "ok"

LoadAllOrNothing ==
    /\ model.none = le_gender.none /\ model.none = le_major.none
    /\ model_cache.set =>
          /\ model_cache.model.none = model_cache.le_gender.none
          /\ model_cache.model.none = model_cache.le_major.none
          /\ (model_cache.model.none <=> ~AllModelFilesOk)
    /\ app_pc \notin { "off", "load_model" } =>
          /\ (model.none <=> ~AllModelFilesOk)
          /\ (~model.none => le_gender.classes = enc_gender /\ le_major.classes = enc_major)

CallsOnlyWhenReady ==
    calls # <<>> =>
        /\ ~model.none /\ ~le_gender.none /\ ~le_major.none
        /\ ~df.empty /\ submitted
        /\ branches = << "prediction" >>

\* the sentence as written: in every run of the prediction page that is not
\* (model loaded, dataset non-empty, form submitted) the unavailable error is
\* shown
C17_Original ==
    /\ LoadAllOrNothing
    /\ CallsOnlyWhenReady
    /\ (branches = << "prediction" >> /\ ~(~model.none /\ ~df.empty /\ submitted)) =>
          (Shown("unavailable_error") /\ calls = <<>>)

\* C17 (amended): load_model returns all three objects or three Nones for
\* every load outcome; the encoders and the model are called only in runs
\* where the model is loaded, the dataset is non-empty and the form was
\* submitted; with the model missing or the dataset empty the page shows the
\* unavailable error, no form, and computes nothing; with both present and no
\* submission it shows the form and computes nothing.
C17_NoMissingResource ==
    /\ LoadAllOrNothing
    /\ CallsOnlyWhenReady
    /\ (branches = << "prediction" >> /\ (model.none \/ df.empty)) =>
          /\ Shown("unavailable_error") /\ ~Shown("form")
          /\ ~Shown("prediction") /\ ~Shown("predict_error")
          /\ calls = <<>>
    /\ (branches = << "prediction" >> /\ ~model.none /\ ~df.empty) =>
          /\ ~Shown("unavailable_error") /\ Shown("form")
          /\ (~submitted => calls = <<>> /\ ~Shown("prediction") /\ ~Shown("predict_error"))

\* the model file loads but an encoder file does not: the page is unavailable
C17_Witness ==
    /\ app_pc = "end"
    /\ branches = << "prediction" >>
    /\ model_files["model"] = "ok" /\ model_files["le_major"] = "corrupt"
    /\ ~df.empty
    /\ Shown("unavailable_error")
    /\ calls = <<>>
=============================================================================
